---- MODULE Spec2Model ----
(***************************************************************************)
(* A model of the Pica class of src/pica.ts (the OneTool version, lines    *)
(* 382-996) and of the helper paginateResults.                             *)
(*                                                                         *)
(* Strings are sequences of symbols.  A symbol is either one of the        *)
(* characters the code inspects ("{", "}") or a chunk of text the code     *)
(* never looks into.  Concatenation is \o.  ":" and "/" are symbols too.    *)
(***************************************************************************)
EXTENDS Integers, Sequences, FiniteSets, TLC

VARIABLES
    upstream,               \* what the remote platform API holds (environment)
    connectors,             \* options?.connectors of the constructor
    connections,            \* this.connections
    connectionDefinitions,  \* this.connectionDefinitions
    systemPromptValue,      \* this.systemPromptValue
    initialized,            \* state of the promise this.initialized
    connReq,                \* the GET of initializeConnections
    defReq,                 \* the GET of initializeConnectionDefinitions
    call,                   \* the tool call in progress (its parameters and position)
    sent,                   \* HTTP requests issued by the tool call in progress
    result,                 \* what the last finished tool call gave to its caller
    pag,                    \* the frame of paginateResults
    pure                    \* the frame of a helper function applied on its own

vars == << upstream, connectors, connections, connectionDefinitions,
           systemPromptValue, initialized, connReq, defReq, call, sent, result, pag, pure >>

----------------------------------------------------------------------------
(* Bounds *)

MaxRows == 2        \* rows in an upstream connection list
MaxN == 9           \* rows held by a page source
MaxLimit == 3       \* page sizes tried by the pagination specification
MaxIdLen == 4       \* symbols in an identifier given to normalizeActionId
MaxSegs == 4        \* segments in a path template given to the resolver
MaxStale == 1       \* rows a page source counts in total but does not return

----------------------------------------------------------------------------
(* The instance's secret and the strings of the environment *)

secret == << "sk_live_secret" >>

Platform == << "gmail" >>

ConnKeys == { << "conn_1" >>, << "conn_2" >> }

Connection == [ key : ConnKeys, platform : { Platform }, active : BOOLEAN ]

ConnectionDefinition == [ platform : { Platform }, title : { << "Gmail" >> } ]

\* options?.connectors: absent, or a list of keys (used only through includes)
NoConnectors == << "<undefined>" >>

ConnectorOptions == { NoConnectors, << >>, << << "*" >> >>, << << "conn_1" >> >> }

RECURSIVE SeqsUpTo(_, _)
SeqsUpTo(S, n) ==
    IF n = 0 THEN { << >> }
    ELSE LET shorter == SeqsUpTo(S, n - 1)
         IN  shorter \cup { Append(s, x) : s \in shorter, x \in S }

RECURSIVE SetToSeq(_)
SetToSeq(S) ==
    IF S = {} THEN << >>
    ELSE LET x == CHOOSE y \in S : TRUE IN << x >> \o SetToSeq(S \ { x })

Includes(list, x) == \E i \in DOMAIN list : list[i] = x

RECURSIVE Join(_, _)
Join(parts, sep) ==
    IF parts = << >> THEN << >>
    ELSE IF Len(parts) = 1 THEN parts[1]
    ELSE parts[1] \o sep \o Join(Tail(parts), sep)

----------------------------------------------------------------------------
(* Constructor, initialize and the system prompt *)

\* The two holes of the fixed prompt text
getDefaultSystemPrompt(connectionsInfo, availablePlatformsInfo) ==
    [ connectionsInfo |-> connectionsInfo,
      availablePlatformsInfo |-> availablePlatformsInfo ]

undefinedText == << "undefined" >>

LoadingPrompt == getDefaultSystemPrompt(<< "Loading connections..." >>, undefinedText)

ErrorPrompt == getDefaultSystemPrompt(<< "Error loading connections" >>, undefinedText)

\* this.connections.filter(conn => conn.active), then the connectors filter
filteredConnections(conns, opt) ==
    LET IsActive(c) == c.active
        Allowed(c) == Includes(opt, c.key)
        act == SelectSeq(conns, IsActive)
    IN  IF opt # NoConnectors THEN SelectSeq(act, Allowed) ELSE act

connectionsInfoOf(filtered) ==
    IF Len(filtered) > 0
    THEN << "\t* " >> \o
         Join([ i \in DOMAIN filtered |->
                  filtered[i].platform \o << " - Key: " >> \o filtered[i].key ],
              << "\n\t* " >>)
    ELSE << "No connections available" >>

availablePlatformsInfoOf(defs) ==
    Join([ i \in DOMAIN defs |->
             << "\n\t* " >> \o defs[i].platform \o << " (" >> \o defs[i].title \o << ")" >> ],
         << >>)

InitInstance ==
    /\ upstream \in [ conns : SeqsUpTo(Connection, MaxRows),
                      defs : { SetToSeq(ConnectionDefinition) } ]
    /\ connectors \in ConnectorOptions
    /\ connections = << >>
    /\ connectionDefinitions = << >>
    /\ systemPromptValue = LoadingPrompt
    /\ initialized = "pending"
    /\ connReq = "inflight"
    /\ defReq = "inflight"

\* initializeConnectionDefinitions without its try/catch: a failed GET rejects
initializeConnectionDefinitionsRethrows ==
    /\ defReq = "inflight"
    /\ \E ok \in BOOLEAN :
         /\ connectionDefinitions' = IF ok THEN upstream.defs ELSE connectionDefinitions
         /\ defReq' = IF ok THEN "ok" ELSE "rejected"
    /\ UNCHANGED << upstream, connectors, connections, systemPromptValue,
                    initialized, connReq, call, sent, result, pag, pure >>

\* initializeConnections after its await: the response, or the catch
initializeConnections ==
    /\ connReq = "inflight"
    /\ \E ok \in BOOLEAN :
         /\ connections' = IF ok THEN upstream.conns ELSE << >>
         /\ connReq' = IF ok THEN "ok" ELSE "failed"
    /\ UNCHANGED << upstream, connectors, connectionDefinitions, systemPromptValue,
                    initialized, defReq, call, sent, result, pag, pure >>

initializeConnectionDefinitions ==
    /\ defReq = "inflight"
    /\ \E ok \in BOOLEAN :
         /\ connectionDefinitions' = IF ok THEN upstream.defs ELSE << >>
         /\ defReq' = IF ok THEN "ok" ELSE "failed"
    /\ UNCHANGED << upstream, connectors, connections, systemPromptValue,
                    initialized, connReq, call, sent, result, pag, pure >>

\* A race in place of the join: the callback runs when the first fetch has settled
initializeThenAfterFirst ==
    /\ initialized = "pending"
    /\ connReq # "inflight" \/ defReq # "inflight"
    /\ systemPromptValue' =
         IF connReq = "rejected" \/ defReq = "rejected"
         THEN ErrorPrompt
         ELSE getDefaultSystemPrompt(
                  connectionsInfoOf(filteredConnections(connections, connectors)),
                  availablePlatformsInfoOf(connectionDefinitions))
    /\ initialized' = "fulfilled"
    /\ UNCHANGED << upstream, connectors, connections, connectionDefinitions,
                    connReq, defReq, call, sent, result, pag, pure >>

\* Promise.all of initialize has settled: the .then callback of the constructor, or
\* its .catch had one of the two rejected (neither does: each catches its own error)
initializeThen ==
    /\ initialized = "pending"
    /\ connReq # "inflight"
    /\ defReq # "inflight"
    /\ systemPromptValue' =
         IF connReq = "rejected" \/ defReq = "rejected"
         THEN ErrorPrompt
         ELSE getDefaultSystemPrompt(
                  connectionsInfoOf(filteredConnections(connections, connectors)),
                  availablePlatformsInfoOf(connectionDefinitions))
    /\ initialized' = "fulfilled"
    /\ UNCHANGED << upstream, connectors, connections, connectionDefinitions,
                    connReq, defReq, call, sent, result, pag, pure >>

----------------------------------------------------------------------------
(* paginateResults *)

DefaultLimit == 100

\* No helper function is being applied on its own
IdlePure == [ fn |-> "none", pc |-> "idle" ]

IdlePag ==
    [ pc |-> "idle", skip |-> 0, limit |-> DefaultLimit, allResults |-> << >>,
      total |-> 0, calls |-> << >>, source |-> << >>, error |-> << >>, stale |-> 0 ]

\* The frame at the first evaluation of fetchFn(skip, limit)
paginateStart(source, limit) ==
    [ pc |-> "fetching", skip |-> 0, limit |-> limit, allResults |-> << >>,
      total |-> 0, calls |-> << << 0, limit >> >>, source |-> source, error |-> << >>,
      stale |-> 0 ]

Min(a, b) == IF a < b THEN a ELSE b

\* A page source that answers fetch(skip, limit) with rows skip..skip+limit-1
PageOf(source, skip, limit) ==
    [ rows |-> SubSeq(source, skip + 1, Min(skip + limit, Len(source))),
      total |-> Len(source) ]

\* A page source whose total counts stale rows that no page returns: beyond its
\* rows it answers with empty pages and the same total
StalePageOf(source, stale, skip, limit) ==
    [ PageOf(source, skip, limit) EXCEPT !.total = Len(source) + stale ]

\* The rejection of the page fetch made with this skip
FetchError(skip) == << "page fetch failed at skip ", ToString(skip) >>

\* The loop with skip never advanced
paginateStepSameSkip(p, ok, resp) ==
    IF ~ok
    THEN [ p EXCEPT !.pc = "thrown", !.error = FetchError(p.skip) ]
    ELSE LET all == p.allResults \o resp.rows
             more == Len(all) < resp.total
         IN  [ p EXCEPT !.total = resp.total,
                        !.allResults = all,
                        !.pc = IF more THEN "fetching" ELSE "returned",
                        !.calls = IF more THEN Append(p.calls, << p.skip, p.limit >>)
                                  ELSE p.calls ]

\* A catch that gives back the rows gathered so far instead of throwing
paginateStepReturnsPartial(p, ok, resp) ==
    IF ~ok
    THEN [ p EXCEPT !.pc = "returned", !.error = FetchError(p.skip) ]
    ELSE LET all == p.allResults \o resp.rows
             more == Len(all) < resp.total
         IN  [ p EXCEPT !.total = resp.total,
                        !.allResults = all,
                        !.skip = p.skip + p.limit,
                        !.pc = IF more THEN "fetching" ELSE "returned",
                        !.calls = IF more
                                  THEN Append(p.calls, << p.skip + p.limit, p.limit >>)
                                  ELSE p.calls ]

\* A loop that asks for the page after next without waiting for the next one
paginateStepPrefetch(p, ok, resp) ==
    IF ~ok
    THEN [ p EXCEPT !.pc = "thrown", !.error = FetchError(p.skip) ]
    ELSE LET all == p.allResults \o resp.rows
             more == Len(all) < resp.total
         IN  [ p EXCEPT !.total = resp.total,
                        !.allResults = all,
                        !.skip = p.skip + p.limit,
                        !.pc = IF more THEN "fetching" ELSE "returned",
                        !.calls = IF more
                                  THEN p.calls \o << << p.skip + p.limit, p.limit >>,
                                                     << p.skip + 2 * p.limit, p.limit >> >>
                                  ELSE p.calls ]

\* One turn of the do-while loop: the awaited fetch settles with resp, or rejects
paginateStep(p, ok, resp) ==
    IF ~ok
    THEN [ p EXCEPT !.pc = "thrown", !.error = FetchError(p.skip) ]
    ELSE LET all == p.allResults \o resp.rows
             more == Len(all) < resp.total
         IN  [ p EXCEPT !.total = resp.total,
                        !.allResults = all,
                        !.skip = p.skip + p.limit,
                        !.pc = IF more THEN "fetching" ELSE "returned",
                        !.calls = IF more
                                  THEN Append(p.calls, << p.skip + p.limit, p.limit >>)
                                  ELSE p.calls ]

----------------------------------------------------------------------------
(* Path templates: the regular expression /\{\{([^}]+)\}\}/g *)

\* Index of the first "}" at or after from, or 0
RECURSIVE FirstClose(_, _)
FirstClose(p, from) ==
    IF from > Len(p) THEN 0
    ELSE IF p[from] = "}" THEN from
    ELSE FirstClose(p, from + 1)

\* Last index of the match that starts at i, or 0 when there is none
MatchAt(p, i) ==
    IF i + 1 <= Len(p) /\ p[i] = "{" /\ p[i + 1] = "{"
    THEN LET j == FirstClose(p, i + 2)
         IN  IF j > i + 2 /\ j + 1 <= Len(p) /\ p[j + 1] = "}" THEN j + 1 ELSE 0
    ELSE 0

\* The matches from index i on, left to right, not overlapping
RECURSIVE Matches(_, _)
Matches(p, i) ==
    IF i > Len(p) THEN << >>
    ELSE LET e == MatchAt(p, i)
         IN  IF e > 0
             THEN << [ from |-> i, to |-> e ] >> \o Matches(p, e + 1)
             ELSE Matches(p, i + 1)

\* v.replace(/\{\{|\}\}/g, '')
RECURSIVE StripBraces(_)
StripBraces(s) ==
    IF Len(s) >= 2 /\ ((s[1] = "{" /\ s[2] = "{") \/ (s[1] = "}" /\ s[2] = "}"))
    THEN StripBraces(SubSeq(s, 3, Len(s)))
    ELSE IF s = << >> THEN << >>
    ELSE << s[1] >> \o StripBraces(Tail(s))

\* Values of data fields and path variables: string, number, boolean or object,
\* each with its string form s
Str(s) == [ t |-> "str", s |-> s ]

Num(s) == [ t |-> "num", s |-> s ]

Bool(s) == [ t |-> "bool", s |-> s ]

Obj(json) == [ t |-> "obj", s |-> json ]

\* value.toString()
toString(v) == IF v.t = "obj" THEN << "[object Object]" >> ELSE v.s

Truthy(v) ==
    CASE v.t = "str" -> v.s # << >>
      [] v.t = "num" -> v.s # << "0" >>
      [] v.t = "bool" -> v.s = << "true" >>
      [] OTHER -> TRUE

\* A presence test in place of the truthiness test
HasKey(obj, k) == k \in DOMAIN obj

\* obj[k] is truthy
Has(obj, k) == k \in DOMAIN obj /\ Truthy(obj[k])

\* A replace without the g flag: only the first placeholder is substituted
replaceFirstOnly(path, variables, i) ==
    LET ms == Matches(path, i)
    IN  IF ms = << >> THEN [ ok |-> TRUE, path |-> path, variable |-> << >> ]
        ELSE LET variable == SubSeq(path, ms[1].from + 2, ms[1].to - 2)
             IN  IF ~Has(variables, variable)
                 THEN [ ok |-> FALSE, path |-> << >>, variable |-> variable ]
                 ELSE [ ok |-> TRUE,
                        path |-> SubSeq(path, 1, ms[1].from - 1)
                                 \o toString(variables[variable])
                                 \o SubSeq(path, ms[1].to + 1, Len(path)),
                        variable |-> << >> ]

\* replacePathVariables: the resolved path, or the first variable without a value
RECURSIVE replaceFrom(_, _, _)
replaceFrom(path, variables, i) ==
    IF i > Len(path) THEN [ ok |-> TRUE, path |-> << >>, variable |-> << >> ]
    ELSE LET e == MatchAt(path, i)
         IN  IF e = 0
             THEN LET rest == replaceFrom(path, variables, i + 1)
                  IN  IF rest.ok THEN [ rest EXCEPT !.path = << path[i] >> \o rest.path ]
                      ELSE rest
             ELSE LET variable == SubSeq(path, i + 2, e - 2)
                  IN  IF ~Has(variables, variable)
                      THEN [ ok |-> FALSE, path |-> << >>, variable |-> variable ]
                      ELSE LET rest == replaceFrom(path, variables, e + 1)
                           IN  IF rest.ok
                               THEN [ rest EXCEPT !.path = toString(variables[variable]) \o rest.path ]
                               ELSE rest

replacePathVariables(path, variables) == replaceFrom(path, variables, 1)

----------------------------------------------------------------------------
(* Requests, errors and envelopes *)

baseUrl == << "https://api.picaos.com" >>

getConnectionUrl == baseUrl \o << "/", "v1", "/", "vault", "/", "connections?limit=300" >>

availableActionsUrl == baseUrl \o << "/", "v1", "/", "knowledge" >>

getConnectionDefinitionsUrl ==
    baseUrl \o << "/", "v1", "/", "public", "/", "connection-definitions?limit=500" >>

\* { ...a, ...b }
Merge(a, b) == b @@ a

NoHeaders == [ k \in {} |-> << >> ]

generateHeaders ==
    ("Content-Type" :> << "application/json" >>) @@ ("x-pica-secret" :> secret)

UndefinedData == [ t |-> "undefined", f |-> NoHeaders ]

ObjectData(f) == [ t |-> "object", f |-> f ]

ArrayData == [ t |-> "array", f |-> NoHeaders ]

NoBody == [ enc |-> "none", data |-> UndefinedData, entries |-> {} ]

NoRequest ==
    [ url |-> << >>, method |-> "", headers |-> NoHeaders, params |-> NoHeaders,
      data |-> NoBody ]

\* axios.get(url, { headers })
GetRequest(url) ==
    [ url |-> url, method |-> "get", headers |-> generateHeaders, params |-> NoHeaders,
      data |-> NoBody ]

\* A comparison with 'get' that forgets the lower-casing
toLowerCaseForgotten(method) == method

\* method?.toLowerCase()
toLowerCase(method) ==
    CASE method \in { "GET", "get", "Get" } -> "get"
      [] method \in { "POST", "post" } -> "post"
      [] OTHER -> method

\* Entries appended without the typeof value === 'object' branch
formEntriesUnstringified(data) ==
    IF data.t = "object"
    THEN { << k, toString(data.f[k]) >> : k \in DOMAIN data.f }
    ELSE {}

\* Object.entries(data) with the stringify rule of the two form branches
formEntries(data) ==
    IF data.t = "object"
    THEN { << k, (IF data.f[k].t = "obj" THEN data.f[k].s ELSE toString(data.f[k])) >> :
             k \in DOMAIN data.f }
    ELSE {}

\* formData.getHeaders()
formDataGetHeaders == ("content-type" :> << "multipart/form-data; boundary=", "----b" >>)

\* The caller's headers spread first, so that the defaults win a collision
executePassthroughConfigDefaultsWin(actionId, connectionKey, data, path, method, queryParams, headers, isFormData, isFormUrlEncoded) ==
    LET h1 == Merge(generateHeaders,
                    ("x-pica-connection-key" :> connectionKey) @@
                    ("x-pica-action-id" :> actionId))
        h2 == IF isFormData
              THEN Merge(h1, "Content-Type" :> << "multipart/form-data" >>) ELSE h1
        h3 == IF isFormUrlEncoded
              THEN Merge(h2, "Content-Type" :> << "application/x-www-form-urlencoded" >>)
              ELSE h2
        newHeaders == Merge(headers, h3)
        url == baseUrl \o << "/", "v1", "/", "passthrough" >> \o
               (IF path # << >> /\ path[1] = "/" THEN path ELSE << "/" >> \o path)
        hasBody == toLowerCase(method) # "get"
    IN  [ url |-> url,
          method |-> method,
          headers |-> IF hasBody /\ isFormData
                      THEN Merge(newHeaders, formDataGetHeaders) ELSE newHeaders,
          params |-> queryParams,
          data |-> IF ~hasBody THEN NoBody
                   ELSE IF isFormData
                        THEN [ enc |-> "multipart", data |-> UndefinedData,
                               entries |-> formEntries(data) ]
                   ELSE IF isFormUrlEncoded
                        THEN [ enc |-> "urlencoded", data |-> UndefinedData,
                               entries |-> formEntries(data) ]
                   ELSE [ enc |-> "raw", data |-> data, entries |-> {} ] ]

\* The requestConfig that executePassthrough hands to axios
executePassthroughConfig(actionId, connectionKey, data, path, method, queryParams, headers, isFormData, isFormUrlEncoded) ==
    LET h1 == Merge(generateHeaders,
                    ("x-pica-connection-key" :> connectionKey) @@
                    ("x-pica-action-id" :> actionId))
        h2 == IF isFormData
              THEN Merge(h1, "Content-Type" :> << "multipart/form-data" >>) ELSE h1
        h3 == IF isFormUrlEncoded
              THEN Merge(h2, "Content-Type" :> << "application/x-www-form-urlencoded" >>)
              ELSE h2
        newHeaders == Merge(h3, headers)
        url == baseUrl \o << "/", "v1", "/", "passthrough" >> \o
               (IF path # << >> /\ path[1] = "/" THEN path ELSE << "/" >> \o path)
        hasBody == toLowerCase(method) # "get"
    IN  [ url |-> url,
          method |-> method,
          headers |-> IF hasBody /\ isFormData
                      THEN Merge(newHeaders, formDataGetHeaders) ELSE newHeaders,
          params |-> queryParams,
          data |-> IF ~hasBody THEN NoBody
                   ELSE IF isFormData
                        THEN [ enc |-> "multipart", data |-> UndefinedData,
                               entries |-> formEntries(data) ]
                   ELSE IF isFormUrlEncoded
                        THEN [ enc |-> "urlencoded", data |-> UndefinedData,
                               entries |-> formEntries(data) ]
                   ELSE [ enc |-> "raw", data |-> data, entries |-> {} ] ]

\* new Error(message)
Error(message) ==
    [ name |-> "Error", message |-> message, hasResponse |-> FALSE,
      responseData |-> << >>, config |-> NoRequest ]

\* What axios rejects with: the error keeps the request config, and the HTTP
\* response when there was one
AxiosError(config, hasResponse, responseData) ==
    [ name |-> "AxiosError",
      message |-> IF hasResponse THEN << "Request failed with status code ", "500" >>
                  ELSE << "Network Error" >>,
      hasResponse |-> hasResponse, responseData |-> responseData, config |-> config ]

RECURSIVE Concat(_)
Concat(parts) == IF parts = << >> THEN << >> ELSE Head(parts) \o Concat(Tail(parts))

stringifyHeaders(h) ==
    LET ks == SetToSeq(DOMAIN h)
    IN  Concat([ i \in DOMAIN ks |-> << ks[i], ":" >> \o h[ks[i]] \o << "," >> ])

\* JSON.stringify(error): an Error has no enumerable property; an AxiosError has
\* toJSON, which gives message, name, config, code and status
JSONstringifyError(error) ==
    IF error.name = "AxiosError"
    THEN << "{message:" >> \o error.message \o << ",name:", "AxiosError", ",config:{url:" >>
         \o error.config.url \o << ",method:", error.config.method, ",headers:{" >>
         \o stringifyHeaders(error.config.headers) \o << "}}}" >>
    ELSE << "{}" >>

\* JSON.stringify(error?.response?.data || error)
rawOf(error) ==
    IF error.hasResponse /\ error.responseData # << >>
    THEN error.responseData
    ELSE JSONstringifyError(error)

NoResult ==
    [ op |-> "none", outcome |-> "none", success |-> FALSE, title |-> << >>,
      message |-> << >>, raw |-> << >>, requestConfig |-> NoRequest,
      connectionKey |-> << >>, system |-> LoadingPrompt, count |-> 0 ]

\* A catch block that throws the error on instead of returning the envelope
failureEnvelopeRethrows(op, title, error) ==
    [ NoResult EXCEPT !.op = op, !.outcome = "threw" ]

\* The catch block of a tool operation
failureEnvelope(op, title, error) ==
    [ NoResult EXCEPT !.op = op, !.outcome = "returned", !.success = FALSE,
                      !.title = title, !.message = error.message, !.raw = rawOf(error) ]

Contains(text, part) ==
    \E i \in 1..(Len(text) - Len(part) + 1) : SubSeq(text, i, i + Len(part) - 1) = part

----------------------------------------------------------------------------
(* The knowledge service and the lookups *)

SendEmailId == << "conn_mod_def", ":", ":", "send_email" >>

UpstreamActions ==
    << [ _id |-> SendEmailId, title |-> << "Send Email" >>, tags |-> << >>,
         knowledge |-> << "Sends an email" >> ] >>

NoAction == [ _id |-> << >>, title |-> << >>, tags |-> << >>, knowledge |-> << >> ]

\* getSingleAction once its GET has settled: the first row, or the error it throws.
\* The error of the empty answer is thrown inside the try, so the catch replaces it.
getSingleAction(actionId, ok) ==
    LET Matching(a) == a._id = actionId
        rows == SelectSeq(UpstreamActions, Matching)
    IN  IF ok /\ Len(rows) > 0
        THEN [ ok |-> TRUE, action |-> rows[1], error |-> Error(<< >>),
               lookup |-> "found" ]
        ELSE [ ok |-> FALSE, action |-> NoAction,
               error |-> Error(<< "Failed to fetch action" >>),
               lookup |-> IF ok THEN "empty" ELSE "failed" ]

singleActionRequest(actionId) == GetRequest(availableActionsUrl \o << "?_id=" >> \o actionId)

pageRequest(platform, skip, limit) ==
    GetRequest(availableActionsUrl \o << "?supported=true&connectionPlatform=" >> \o platform
               \o << "&skip=", ToString(skip), "&limit=", ToString(limit) >>)

----------------------------------------------------------------------------
(* execute: the path variables *)

\* A clean-up that copies the value into pathVariables and forgets the delete
RECURSIVE migrateKeepsBody(_, _, _, _)
migrateKeepsBody(required, i, data, pathVariables) ==
    IF i > Len(required) THEN [ data |-> data, pathVariables |-> pathVariables ]
    ELSE LET v == required[i]
         IN  IF data.t # "undefined" /\ Has(data.f, v) /\ ~Has(pathVariables, v)
             THEN migrateKeepsBody(required, i + 1, data, (v :> data.f[v]) @@ pathVariables)
             ELSE migrateKeepsBody(required, i + 1, data, pathVariables)

\* requiredVariables.forEach of the clean-up, from the i-th variable on
RECURSIVE migrate(_, _, _, _)
migrate(required, i, data, pathVariables) ==
    IF i > Len(required) THEN [ data |-> data, pathVariables |-> pathVariables ]
    ELSE LET v == required[i]
         IN  IF data.t # "undefined" /\ Has(data.f, v) /\ ~Has(pathVariables, v)
             THEN migrate(required, i + 1,
                          [ data EXCEPT !.f = [ k \in DOMAIN data.f \ { v } |-> data.f[k] ] ],
                          (v :> data.f[v]) @@ pathVariables)
             ELSE migrate(required, i + 1, data, pathVariables)

\* A check that stops at the first missing variable
resolvePathFirstMissing(path, data, pathVariables) ==
    LET templateVariables == Matches(path, 1)
        requiredVariables ==
            [ i \in DOMAIN templateVariables |->
                StripBraces(SubSeq(path, templateVariables[i].from, templateVariables[i].to)) ]
        combinedVariables == Merge(IF data.t = "object" THEN data.f ELSE NoHeaders,
                                   pathVariables)
        IsMissing(v) == ~Has(combinedVariables, v)
        missingVariables == SelectSeq(requiredVariables, IsMissing)
        moved == IF data.t = "array"
                 THEN [ data |-> data, pathVariables |-> pathVariables ]
                 ELSE migrate(requiredVariables, 1, data, pathVariables)
        replaced == replacePathVariables(path, moved.pathVariables)
    IN  IF templateVariables = << >>
        THEN [ ok |-> TRUE, path |-> path, data |-> data, pathVariables |-> pathVariables,
               error |-> Error(<< >>) ]
        ELSE IF Len(missingVariables) > 0
        THEN [ ok |-> FALSE, path |-> path, data |-> data, pathVariables |-> pathVariables,
               error |-> Error(<< "Missing required path variables: " >>
                               \o missingVariables[1]
                               \o << ". Please provide values for these variables." >>) ]
        ELSE IF ~replaced.ok
        THEN [ ok |-> FALSE, path |-> path, data |-> moved.data,
               pathVariables |-> moved.pathVariables,
               error |-> Error(<< "Missing value for path variable: " >>
                               \o replaced.variable) ]
        ELSE [ ok |-> TRUE, path |-> replaced.path, data |-> moved.data,
               pathVariables |-> moved.pathVariables, error |-> Error(<< >>) ]

\* The clean-up of the body run before the missing-variables check
resolvePathCleansUpFirst(path, data, pathVariables) ==
    LET templateVariables == Matches(path, 1)
        requiredVariables ==
            [ i \in DOMAIN templateVariables |->
                StripBraces(SubSeq(path, templateVariables[i].from, templateVariables[i].to)) ]
        combinedVariables == Merge(IF data.t = "object" THEN data.f ELSE NoHeaders,
                                   pathVariables)
        IsMissing(v) == ~Has(combinedVariables, v)
        missingVariables == SelectSeq(requiredVariables, IsMissing)
        moved == IF data.t = "array"
                 THEN [ data |-> data, pathVariables |-> pathVariables ]
                 ELSE migrate(requiredVariables, 1, data, pathVariables)
        replaced == replacePathVariables(path, moved.pathVariables)
    IN  IF templateVariables = << >>
        THEN [ ok |-> TRUE, path |-> path, data |-> data, pathVariables |-> pathVariables,
               error |-> Error(<< >>) ]
        ELSE IF Len(missingVariables) > 0
        THEN [ ok |-> FALSE, path |-> path, data |-> moved.data,
               pathVariables |-> moved.pathVariables,
               error |-> Error(<< "Missing required path variables: " >>
                               \o Join(missingVariables, << ", " >>)
                               \o << ". Please provide values for these variables." >>) ]
        ELSE IF ~replaced.ok
        THEN [ ok |-> FALSE, path |-> path, data |-> moved.data,
               pathVariables |-> moved.pathVariables,
               error |-> Error(<< "Missing value for path variable: " >>
                               \o replaced.variable) ]
        ELSE [ ok |-> TRUE, path |-> replaced.path, data |-> moved.data,
               pathVariables |-> moved.pathVariables, error |-> Error(<< >>) ]

\* Lines 927-959: the resolved path with the data and pathVariables left in params,
\* or the error thrown
resolvePath(path, data, pathVariables) ==
    LET templateVariables == Matches(path, 1)
        requiredVariables ==
            [ i \in DOMAIN templateVariables |->
                StripBraces(SubSeq(path, templateVariables[i].from, templateVariables[i].to)) ]
        combinedVariables == Merge(IF data.t = "object" THEN data.f ELSE NoHeaders,
                                   pathVariables)
        IsMissing(v) == ~Has(combinedVariables, v)
        missingVariables == SelectSeq(requiredVariables, IsMissing)
        moved == IF data.t = "array"
                 THEN [ data |-> data, pathVariables |-> pathVariables ]
                 ELSE migrate(requiredVariables, 1, data, pathVariables)
        replaced == replacePathVariables(path, moved.pathVariables)
    IN  IF templateVariables = << >>
        THEN [ ok |-> TRUE, path |-> path, data |-> data, pathVariables |-> pathVariables,
               error |-> Error(<< >>) ]
        ELSE IF Len(missingVariables) > 0
        THEN [ ok |-> FALSE, path |-> path, data |-> data, pathVariables |-> pathVariables,
               error |-> Error(<< "Missing required path variables: " >>
                               \o Join(missingVariables, << ", " >>)
                               \o << ". Please provide values for these variables." >>) ]
        ELSE IF ~replaced.ok
        THEN [ ok |-> FALSE, path |-> path, data |-> moved.data,
               pathVariables |-> moved.pathVariables,
               error |-> Error(<< "Missing value for path variable: " >>
                               \o replaced.variable) ]
        ELSE [ ok |-> TRUE, path |-> replaced.path, data |-> moved.data,
               pathVariables |-> moved.pathVariables, error |-> Error(<< >>) ]

----------------------------------------------------------------------------
(* The tool operations *)

NoParams ==
    [ platform |-> Platform, actionId |-> << >>, path |-> << >>, method |-> "",
      connectionKey |-> << >>, data |-> UndefinedData, pathVariables |-> NoHeaders,
      queryParams |-> NoHeaders, headers |-> NoHeaders,
      isFormData |-> FALSE, isFormUrlEncoded |-> FALSE ]

\* No rejection of the passthrough request so far
NoError ==
    [ name |-> "none", message |-> << >>, hasResponse |-> FALSE,
      responseData |-> << >>, config |-> NoRequest ]

IdleCall ==
    [ op |-> "none", pc |-> "idle", params |-> NoParams, readInit |-> "none",
      fullAction |-> NoAction, requestConfig |-> NoRequest, lookup |-> "none",
      rejected |-> NoError ]

\* Inputs of the tool calls
CallKeys == ConnKeys \cup { << "conn_x" >> }

\* An identifier given without the canonical prefix
UnprefixedId == << "gmail", ":", ":", "send_email" >>

ActionIds == { SendEmailId, << "no_such_action" >>, UnprefixedId }

PlainPath == << "/", "messages" >>

IdPath == << "/", "messages", "/", "{", "{", "id", "}", "}" >>

\* '/messages/{{a{{b}}': the regex takes 'a{{b' as the name of the placeholder
NestedBracePath == << "/", "messages", "/", "{", "{", "a", "{", "{", "b", "}", "}" >>

IdAndSubject ==
    ObjectData((<< "id" >> :> Str(<< "42" >>)) @@ (<< "subject" >> :> Str(<< "hi" >>)))

Shape(path, method, data, pathVariables, headers, isFormData, isFormUrlEncoded) ==
    [ path |-> path, method |-> method, data |-> data, pathVariables |-> pathVariables,
      headers |-> headers, isFormData |-> isFormData, isFormUrlEncoded |-> isFormUrlEncoded ]

\* The requests the model's caller makes through execute
RequestShapes ==
    { Shape(PlainPath, "GET", UndefinedData, NoHeaders, NoHeaders, FALSE, FALSE),
      Shape(IdPath, "POST", IdAndSubject, NoHeaders, NoHeaders, FALSE, FALSE),
      Shape(IdPath, "POST", UndefinedData, (<< "id" >> :> Str(<< "7" >>)),
            ("x-pica-secret" :> << "caller_value" >>) @@
            ("x-pica-connection-key" :> << "conn_other" >>), FALSE, FALSE),
      Shape(IdPath, "POST", UndefinedData, NoHeaders, NoHeaders, FALSE, FALSE),
      Shape(PlainPath, "POST", IdAndSubject, NoHeaders, NoHeaders, TRUE, FALSE),
      Shape(PlainPath, "POST", IdAndSubject, NoHeaders, NoHeaders, FALSE, TRUE),
      Shape(NestedBracePath, "POST", UndefinedData, (<< "a", "b" >> :> Str(<< "1" >>)),
            NoHeaders, FALSE, FALSE) }

ExecuteParams ==
    { [ platform |-> Platform, actionId |-> id, path |-> sh.path, method |-> sh.method,
        connectionKey |-> key, data |-> sh.data, pathVariables |-> sh.pathVariables,
        queryParams |-> NoHeaders, headers |-> sh.headers,
        isFormData |-> sh.isFormData, isFormUrlEncoded |-> sh.isFormUrlEncoded ] :
      id \in ActionIds, key \in CallKeys, sh \in RequestShapes }

CanCall == call.pc = "idle"

Done(c) == [ c EXCEPT !.pc = "done" ]

InstanceVars ==
    << upstream, connectors, connections, connectionDefinitions, systemPromptValue,
       initialized, connReq, defReq >>

\* oneTool.getAvailableActions.execute up to the first page request
getAvailableActionsCall ==
    /\ CanCall
    /\ call' = [ IdleCall EXCEPT !.op = "getAvailableActions", !.pc = "page" ]
    /\ pag' = paginateStart(UpstreamActions, DefaultLimit)
    /\ sent' = << pageRequest(Platform, 0, DefaultLimit) >>
    /\ result' = NoResult
    /\ UNCHANGED << InstanceVars, pure >>

\* A page request settles: next page, the success envelope, or the catch chain
getAvailableActionsPage ==
    /\ call.op = "getAvailableActions" /\ call.pc = "page"
    /\ \E ok \in BOOLEAN :
         LET p == paginateStep(pag, ok, PageOf(pag.source, pag.skip, pag.limit))
         IN  /\ pag' = p
             /\ CASE p.pc = "fetching" ->
                       /\ sent' = Append(sent, pageRequest(Platform, p.skip, p.limit))
                       /\ UNCHANGED << call, result >>
                  [] p.pc = "returned" ->
                       /\ result' = [ NoResult EXCEPT !.op = call.op, !.outcome = "returned",
                                                      !.success = TRUE,
                                                      !.count = Len(p.allResults) ]
                       /\ call' = Done(call)
                       /\ UNCHANGED sent
                  [] OTHER ->
                       /\ result' = failureEnvelope(call.op,
                                        << "Failed to get available actions" >>,
                                        Error(<< "Failed to fetch available actions" >>))
                       /\ call' = Done(call)
                       /\ UNCHANGED sent
    /\ UNCHANGED << InstanceVars, pure >>

\* oneTool.getActionKnowledge.execute up to the GET of getSingleAction
getActionKnowledgeCall ==
    /\ CanCall
    /\ \E id \in ActionIds :
         /\ call' = [ IdleCall EXCEPT !.op = "getActionKnowledge", !.pc = "lookup",
                                      !.params.actionId = id ]
         /\ sent' = << singleActionRequest(id) >>
    /\ result' = NoResult
    /\ UNCHANGED << InstanceVars, pure, pag >>

getActionKnowledgeLookup ==
    /\ call.op = "getActionKnowledge" /\ call.pc = "lookup"
    /\ \E ok \in BOOLEAN :
         LET found == getSingleAction(call.params.actionId, ok)
         IN  /\ result' = IF found.ok
                          THEN [ NoResult EXCEPT !.op = call.op, !.outcome = "returned",
                                                 !.success = TRUE ]
                          ELSE failureEnvelope(call.op, << "Failed to get action knowledge" >>,
                                               found.error)
             /\ call' = [ Done(call) EXCEPT !.fullAction = found.action,
                                            !.lookup = found.lookup ]
    /\ UNCHANGED << InstanceVars, pure, sent, pag >>

\* The check of line 921 without the comparison of the key
connectionKnownAnyKey(conns, connectionKey) == \E i \in DOMAIN conns : TRUE

connectionKnown(conns, connectionKey) == \E i \in DOMAIN conns : conns[i].key = connectionKey

\* oneTool.execute.execute up to the await of getSingleAction
executeCall ==
    /\ CanCall
    /\ \E params \in ExecuteParams :
         IF ~connectionKnown(connections, params.connectionKey)
         THEN /\ call' = [ IdleCall EXCEPT !.op = "execute", !.pc = "done",
                                           !.params = params, !.readInit = initialized ]
              /\ sent' = << >>
              /\ result' = failureEnvelope("execute", << "Failed to execute action" >>,
                               Error(<< "Connection not found. Please add a " >>
                                     \o params.platform \o << " connection first." >>))
         ELSE /\ call' = [ IdleCall EXCEPT !.op = "execute", !.pc = "lookup",
                                           !.params = params, !.readInit = initialized ]
              /\ sent' = << singleActionRequest(params.actionId) >>
              /\ result' = NoResult
    /\ UNCHANGED << InstanceVars, pure, pag >>

\* getSingleAction settles; the path variables; executePassthrough up to its await
executeLookup ==
    /\ call.op = "execute" /\ call.pc = "lookup"
    /\ \E ok \in BOOLEAN :
         LET p == call.params
             found == getSingleAction(p.actionId, ok)
             resolved == resolvePath(p.path, p.data, p.pathVariables)
             after == [ p EXCEPT !.data = resolved.data,
                                 !.pathVariables = resolved.pathVariables ]
             config == executePassthroughConfig(p.actionId, p.connectionKey, resolved.data,
                           resolved.path, p.method, p.queryParams, p.headers,
                           p.isFormData, p.isFormUrlEncoded)
         IN  IF ~found.ok
             THEN /\ result' = failureEnvelope("execute", << "Failed to execute action" >>,
                                               found.error)
                  /\ call' = [ Done(call) EXCEPT !.lookup = found.lookup ]
                  /\ UNCHANGED sent
             ELSE IF ~resolved.ok
             THEN /\ result' = failureEnvelope("execute", << "Failed to execute action" >>,
                                               resolved.error)
                  /\ call' = [ Done(call) EXCEPT !.params = after,
                                                 !.fullAction = found.action,
                                                 !.lookup = found.lookup ]
                  /\ UNCHANGED sent
             ELSE /\ call' = [ call EXCEPT !.pc = "passthrough", !.params = after,
                                           !.fullAction = found.action,
                                           !.lookup = found.lookup,
                                           !.requestConfig = config ]
                  /\ sent' = Append(sent, config)
                  /\ UNCHANGED result
    /\ UNCHANGED << InstanceVars, pure, pag >>

ErrorBodies == { << "{error:", "upstream said no", "}" >>, << >> }

\* What axios(requestConfig) can reject with: an HTTP error with its body, or a
\* transport error without a response
Rejections(config) ==
    { AxiosError(config, TRUE, body) : body \in ErrorBodies }
        \cup { AxiosError(config, FALSE, << >>) }

\* A catch that sends the request a second time before giving up
executePassthroughRetries ==
    /\ call.op = "execute" /\ call.pc = "passthrough"
    /\ \/ /\ result' = [ NoResult EXCEPT !.op = "execute", !.outcome = "returned",
                                         !.success = TRUE,
                                         !.connectionKey = call.params.connectionKey,
                                         !.requestConfig = call.requestConfig ]
          /\ call' = Done(call)
          /\ UNCHANGED sent
       \/ \E error \in Rejections(call.requestConfig) :
            IF Len(sent) < 3
            THEN /\ sent' = Append(sent, call.requestConfig)
                 /\ UNCHANGED << call, result >>
            ELSE /\ result' = failureEnvelope("execute", << "Failed to execute action" >>,
                                              error)
                 /\ call' = [ Done(call) EXCEPT !.rejected = error ]
                 /\ UNCHANGED sent
    /\ UNCHANGED << InstanceVars, pure, pag >>

\* axios(requestConfig) settles: the success envelope, or the error rethrown by
\* executePassthrough and caught by execute
executePassthrough ==
    /\ call.op = "execute" /\ call.pc = "passthrough"
    /\ \/ /\ result' = [ NoResult EXCEPT !.op = "execute", !.outcome = "returned",
                                         !.success = TRUE,
                                         !.connectionKey = call.params.connectionKey,
                                         !.requestConfig = call.requestConfig ]
          /\ call' = Done(call)
       \/ \E error \in Rejections(call.requestConfig) :
            /\ result' = failureEnvelope("execute", << "Failed to execute action" >>, error)
            /\ call' = [ Done(call) EXCEPT !.rejected = error ]
    /\ UNCHANGED << InstanceVars, pure, sent, pag >>

\* waitForInitialization up to await this.initialized
waitForInitializationCall ==
    /\ CanCall
    /\ call' = [ IdleCall EXCEPT !.op = "waitForInitialization", !.pc = "awaitInit" ]
    /\ sent' = << >>
    /\ result' = NoResult
    /\ UNCHANGED << InstanceVars, pure, pag >>

\* generateSystemPrompt up to the await inside waitForInitialization
generateSystemPromptCall ==
    /\ CanCall
    /\ call' = [ IdleCall EXCEPT !.op = "generateSystemPrompt", !.pc = "awaitInit" ]
    /\ sent' = << >>
    /\ result' = NoResult
    /\ UNCHANGED << InstanceVars, pure, pag >>

\* The promise is fulfilled: both operations go on and read this.system
awaitInitialized ==
    /\ call.pc = "awaitInit"
    /\ initialized = "fulfilled"
    /\ call' = [ Done(call) EXCEPT !.readInit = initialized ]
    /\ result' = [ NoResult EXCEPT !.op = call.op, !.outcome = "returned",
                                   !.success = TRUE, !.system = systemPromptValue ]
    /\ UNCHANGED << InstanceVars, pure, sent, pag >>

\* The promise of a tool operation has settled and its caller has the envelope
toolReturns ==
    /\ call.pc = "done"
    /\ call' = IdleCall
    /\ sent' = << >>
    /\ result' = NoResult
    /\ pag' = IdlePag
    /\ UNCHANGED << InstanceVars, pure >>

Init ==
    /\ InitInstance
    /\ call = IdleCall
    /\ sent = << >>
    /\ result = NoResult
    /\ pag = IdlePag
    /\ pure = IdlePure

Next ==
    \/ initializeConnections
    \/ initializeConnectionDefinitions
    \/ initializeThen
    \/ getAvailableActionsCall
    \/ getAvailableActionsPage
    \/ getActionKnowledgeCall
    \/ getActionKnowledgeLookup
    \/ executeCall
    \/ executeLookup
    \/ executePassthrough
    \/ waitForInitializationCall
    \/ generateSystemPromptCall
    \/ awaitInitialized
    \/ toolReturns

Spec == Init /\ [][Next]_vars

----------------------------------------------------------------------------
(* normalizeActionId: an identifier is a sequence of symbols in which ":" is
   always a symbol of its own, so "::" is two adjacent ":" *)

CanonicalPrefix == << "conn_mod_def", ":", ":" >>

\* raw.includes("::")
includesSeparator(raw) == \E i \in 1..(Len(raw) - 1) : raw[i] = ":" /\ raw[i + 1] = ":"

\* s.startsWith(p)
startsWith(s, p) == Len(s) >= Len(p) /\ SubSeq(s, 1, Len(p)) = p

\* The documented case rule: a separator anywhere leaves the identifier alone,
\* a bare identifier gets the prefix
normalizeActionIdBareGetsPrefix(raw) ==
    IF startsWith(raw, CanonicalPrefix) THEN raw
    ELSE IF includesSeparator(raw) THEN raw
    ELSE CanonicalPrefix \o raw

\* The prefix test left out
normalizeActionIdAlwaysPrepends(raw) ==
    IF includesSeparator(raw) THEN CanonicalPrefix \o raw ELSE raw

normalizeActionId(raw) ==
    IF includesSeparator(raw)
    THEN IF ~startsWith(raw, CanonicalPrefix) THEN CanonicalPrefix \o raw ELSE raw
    ELSE raw

IdSymbols == { "conn_mod_def", ":", "send_email" }

RawIds == SeqsUpTo(IdSymbols, MaxIdLen)

normalizeOnce ==
    /\ pure.fn = "normalizeActionId"
    /\ pure.pc = "input"
    /\ pure' = [ pure EXCEPT !.pc = "once", !.once = normalizeActionId(pure.raw) ]
    /\ UNCHANGED << InstanceVars, call, sent, result, pag >>

normalizeAgain ==
    /\ pure.fn = "normalizeActionId"
    /\ pure.pc = "once"
    /\ pure' = [ pure EXCEPT !.pc = "twice", !.twice = normalizeActionId(pure.once) ]
    /\ UNCHANGED << InstanceVars, call, sent, result, pag >>

QuietInstance ==
    /\ upstream = [ conns |-> << >>, defs |-> << >> ]
    /\ connectors = NoConnectors
    /\ connections = << >>
    /\ connectionDefinitions = << >>
    /\ systemPromptValue = LoadingPrompt
    /\ initialized = "pending"
    /\ connReq = "inflight"
    /\ defReq = "inflight"
    /\ call = IdleCall
    /\ sent = << >>
    /\ result = NoResult
    /\ pag = IdlePag

InitNormalize ==
    /\ QuietInstance
    /\ \E raw \in RawIds :
         pure = [ fn |-> "normalizeActionId", pc |-> "input", raw |-> raw,
                  once |-> << >>, twice |-> << >> ]

NextNormalize == normalizeOnce \/ normalizeAgain

SpecNormalize == InitNormalize /\ [][NextNormalize]_vars

----------------------------------------------------------------------------
(* replacePathVariables and the path handling of execute on their own, against
   templates put together from literal and placeholder segments *)

Placeholder(name) == << "/", "{", "{", name, "}", "}" >>

\* A template segment: the symbols it contributes, and the variable it names
Lit(text) == [ text |-> text, name |-> << >> ]

Var(name) == [ text |-> Placeholder(name), name |-> << name >> ]

ResolverSegments == { Lit(<< "/", "a" >>), Lit(<< "/", "b" >>), Lit(<< "}" >>), Var("x"), Var("y") }

TemplateOf(segs) == Concat([ i \in DOMAIN segs |-> segs[i].text ])

Vars2(a, va, b, vb) == (<< a >> :> va) @@ (<< b >> :> vb)

ResolverVariables ==
    { NoHeaders,
      Vars2("x", Str(<< "1" >>), "y", Str(<< "2" >>)),
      (<< "x" >> :> Str(<< "1" >>)),
      (<< "y" >> :> Num(<< "7" >>)),
      Vars2("x", Num(<< "0" >>), "y", Str(<< "2" >>)),
      Vars2("x", Str(<< >>), "y", Bool(<< "true" >>)),
      Vars2("x", Num(<< "5" >>), "y", Bool(<< "false" >>)) }

replacePathVariablesCall ==
    /\ pure.fn = "replacePathVariables"
    /\ pure.pc = "input"
    /\ LET r == replacePathVariables(TemplateOf(pure.segs), pure.variables)
       IN  pure' = [ pure EXCEPT
                       !.pc = IF r.ok THEN "returned" ELSE "thrown",
                       !.path = r.path,
                       !.error = IF r.ok THEN Error(<< >>)
                                 ELSE Error(<< "Missing value for path variable: " >>
                                            \o r.variable) ]
    /\ UNCHANGED << InstanceVars, call, sent, result, pag >>

ExecuteSegments == { Lit(<< "/", "messages" >>), Var("id"), Var("y") }

SubjectOnly == (<< "subject" >> :> Str(<< "hi" >>))

ExecuteData ==
    { UndefinedData, ArrayData, IdAndSubject,
      ObjectData(SubjectOnly),
      ObjectData(Vars2("id", Str(<< "1" >>), "y", Str(<< "2" >>))),
      ObjectData(Vars2("y", Num(<< "2" >>), "subject", Str(<< "hi" >>))),
      ObjectData(Vars2("id", Num(<< "0" >>), "subject", Str(<< "hi" >>))) }

ExecutePathVariables ==
    { NoHeaders,
      (<< "id" >> :> Str(<< "7" >>)),
      Vars2("id", Str(<< "7" >>), "y", Str(<< "8" >>)),
      (<< "id" >> :> Str(<< >>)),
      (<< "y" >> :> Num(<< "0" >>)) }

PathCallKey == CHOOSE k \in ConnKeys : TRUE

\* Lines 927-972 of execute for a POST without flags: the path variables, then
\* the request executePassthrough builds, or the envelope of the catch
executePathCall ==
    /\ pure.fn = "execute"
    /\ pure.pc = "input"
    /\ LET resolved == resolvePath(TemplateOf(pure.segs), pure.data, pure.pathVariables)
           config == executePassthroughConfig(SendEmailId, PathCallKey, resolved.data,
                         resolved.path, "POST", NoHeaders, NoHeaders, FALSE, FALSE)
       IN  pure' = [ pure EXCEPT
                       !.pc = IF resolved.ok THEN "sent" ELSE "failed",
                       !.after = [ data |-> resolved.data,
                                   pathVariables |-> resolved.pathVariables ],
                       !.requestConfig = IF resolved.ok THEN config ELSE NoRequest,
                       !.result = IF resolved.ok THEN NoResult
                                  ELSE failureEnvelope("execute",
                                           << "Failed to execute action" >>,
                                           resolved.error) ]
    /\ UNCHANGED << InstanceVars, call, sent, result, pag >>

InitPath ==
    /\ QuietInstance
    /\ \/ \E segs \in SeqsUpTo(ResolverSegments, MaxSegs), variables \in ResolverVariables :
            pure = [ fn |-> "replacePathVariables", pc |-> "input", segs |-> segs,
                     variables |-> variables, path |-> << >>, error |-> Error(<< >>) ]
       \/ \E segs \in SeqsUpTo(ExecuteSegments, MaxSegs), data \in ExecuteData,
             pathVariables \in ExecutePathVariables :
            pure = [ fn |-> "execute", pc |-> "input", segs |-> segs, data |-> data,
                     pathVariables |-> pathVariables,
                     after |-> [ data |-> data, pathVariables |-> pathVariables ],
                     requestConfig |-> NoRequest, result |-> NoResult ]

NextPath == replacePathVariablesCall \/ executePathCall

SpecPath == InitPath /\ [][NextPath]_vars

----------------------------------------------------------------------------
(* The request executePassthrough builds, on its own, against every method,
   flag combination, body kind and caller header set below *)

BuildMethods == { "GET", "get", "Get", "POST" }

MetaAndCount ==
    ObjectData((<< "meta" >> :> Obj(<< "{", "\"a\":1", "}" >>)) @@ (<< "count" >> :> Num(<< "3" >>)))

BuildData == { UndefinedData, ArrayData, IdAndSubject, MetaAndCount }

BuildHeaders ==
    { NoHeaders,
      ("Content-Type" :> << "text/plain" >>),
      ("content-type" :> << "text/plain" >>),
      ("content-type" :> << "text/plain" >>) @@ ("x-custom" :> << "1" >>),
      ("x-pica-secret" :> << "caller_value" >>) @@ ("x-pica-action-id" :> << "caller_action" >>) }

BuildPaths == { PlainPath, << "messages" >> }

executePassthroughBuild ==
    /\ pure.fn = "executePassthrough"
    /\ pure.pc = "input"
    /\ pure' = [ pure EXCEPT
                   !.pc = "built",
                   !.requestConfig =
                       executePassthroughConfig(SendEmailId, PathCallKey, pure.data, pure.path,
                           pure.method, NoHeaders, pure.headers,
                           pure.isFormData, pure.isFormUrlEncoded) ]
    /\ UNCHANGED << InstanceVars, call, sent, result, pag >>

InitBuild ==
    /\ QuietInstance
    /\ \E method \in BuildMethods, data \in BuildData, headers \in BuildHeaders,
          path \in BuildPaths, isFormData \in BOOLEAN, isFormUrlEncoded \in BOOLEAN :
         pure = [ fn |-> "executePassthrough", pc |-> "input", method |-> method,
                  data |-> data, headers |-> headers, path |-> path,
                  isFormData |-> isFormData, isFormUrlEncoded |-> isFormUrlEncoded,
                  requestConfig |-> NoRequest ]

NextBuild == executePassthroughBuild

SpecBuild == InitBuild /\ [][NextBuild]_vars

----------------------------------------------------------------------------
(* paginateResults on its own, against page sources of every size *)

RowsOf(n) == [ i \in 1..n |-> i ]

paginateCall ==
    /\ call.pc = "idle"
    /\ pag.pc = "idle"
    /\ \E n \in 0..MaxN, limit \in 1..MaxLimit, stale \in 0..MaxStale :
         pag' = [ paginateStart(RowsOf(n), limit) EXCEPT !.stale = stale ]
    /\ UNCHANGED << InstanceVars, pure, call, sent, result >>

\* the fetches followed in one call, so that a loop that never ends is cut
FetchCap == MaxN + MaxStale + 2

paginateFetch ==
    /\ call.pc = "idle"
    /\ pag.pc = "fetching"
    /\ Len(pag.calls) < FetchCap
    /\ \E ok \in BOOLEAN :
         pag' = paginateStep(pag, ok,
                             StalePageOf(pag.source, pag.stale, pag.skip, pag.limit))
    /\ UNCHANGED << InstanceVars, pure, call, sent, result >>

InitPaginate ==
    /\ upstream = [ conns |-> << >>, defs |-> << >> ]
    /\ connectors = NoConnectors
    /\ connections = << >>
    /\ connectionDefinitions = << >>
    /\ systemPromptValue = LoadingPrompt
    /\ initialized = "pending"
    /\ connReq = "inflight"
    /\ defReq = "inflight"
    /\ call = IdleCall
    /\ sent = << >>
    /\ result = NoResult
    /\ pag = IdlePag
    /\ pure = IdlePure

NextPaginate == paginateCall \/ paginateFetch

SpecPaginate == InitPaginate /\ [][NextPaginate]_vars

----------------------------------------------------------------------------
(* Vocabulary of the claims *)

IsPassthrough(request) == Contains(request.url, << "passthrough" >>)

PassthroughSent == \E i \in DOMAIN sent : IsPassthrough(sent[i])

ToolOps == { "getAvailableActions", "getActionKnowledge", "execute" }

ConnectionNotFound(platform) ==
    << "Connection not found. Please add a " >> \o platform \o << " connection first." >>

\* The keys listed in the connection list of a rendered prompt
RECURSIVE KeyEnd(_, _)
KeyEnd(info, j) ==
    IF j > Len(info) \/ info[j] = "\n\t* " THEN j ELSE KeyEnd(info, j + 1)

RECURSIVE SurfacedKeys(_, _)
SurfacedKeys(info, i) ==
    IF i > Len(info) THEN << >>
    ELSE IF info[i] = " - Key: "
    THEN LET e == KeyEnd(info, i + 1)
         IN  << SubSeq(info, i + 1, e - 1) >> \o SurfacedKeys(info, e)
    ELSE SurfacedKeys(info, i + 1)

\* What the documented allow-list lets through, from the upstream rows
AllowedKeys ==
    LET Surfaced(c) ==
            /\ c.active
            /\ \/ Includes(connectors, << "*" >>)
               \/ Includes(connectors, c.key)
        rows == SelectSeq(upstream.conns, Surfaced)
    IN  [ i \in DOMAIN rows |-> rows[i].key ]

----------------------------------------------------------------------------
(* Claims *)

\* C1: every success envelope of execute carries a requestConfig whose
\* x-pica-secret header is not the instance's real secret.
C1_SecretRedacted ==
    (result.op = "execute" /\ result.success)
        => /\ "x-pica-secret" \in DOMAIN result.requestConfig.headers
           /\ result.requestConfig.headers["x-pica-secret"] # secret

\* C2: no failure envelope of a tool operation contains the secret, in message or
\* in raw, whatever failed.
C2_NoSecretInFailure ==
    (result.op \in ToolOps /\ result.outcome = "returned" /\ ~result.success)
        => /\ ~Contains(result.message, secret)
           /\ ~Contains(result.raw, secret)

\* C3: a finished tool operation has returned an envelope, never thrown: either
\* success = true, or success = false with a title, a message and raw.
C3_AlwaysEnvelope ==
    (call.pc = "done" /\ call.op \in ToolOps)
        => /\ result.outcome = "returned"
           /\ result.op = call.op
           /\ \/ result.success
              \/ /\ result.title # << >>
                 /\ result.message # << >>
                 /\ result.raw # << >>

C3_Witness ==
    /\ call.op = "execute" /\ call.pc = "done"
    /\ ~result.success
    /\ result.message = << "Network Error" >>
    /\ Len(sent) = 2

\* C4: a call of execute whose connectionKey is the key of no known connection
\* ends at once with the 'Connection not found' failure and has issued no request.
C4_UnknownKeyFailsBeforeAnyRequest ==
    [][ ( /\ call.pc = "idle"
          /\ call'.op = "execute"
          /\ ~\E i \in DOMAIN connections :
                  connections[i].key = call'.params.connectionKey )
        => ( /\ call'.pc = "done"
             /\ result'.outcome = "returned"
             /\ ~result'.success
             /\ result'.message = ConnectionNotFound(call'.params.platform)
             /\ sent' = << >> ) ]_vars

C4_Witness ==
    /\ call.op = "execute" /\ call.pc = "done"
    /\ initialized = "fulfilled"
    /\ Len(connections) > 0
    /\ call.params.connectionKey = << "conn_x" >>
    /\ result.message = ConnectionNotFound(Platform)
    /\ sent = << >>

\* C5: execute dispatches a passthrough request only for a connection that is
\* active; a key whose only known connection is inactive is refused.
C5_OnlyActiveDispatch ==
    (call.op = "execute" /\ PassthroughSent)
        => \E i \in DOMAIN connections :
               /\ connections[i].key = call.params.connectionKey
               /\ connections[i].active

\* C6: execute never dispatches for a connection key that the connectors
\* allow-list excludes; with an empty list it dispatches nothing at all.
C6_AllowListGatesExecute ==
    (call.op = "execute" /\ PassthroughSent /\ connectors # NoConnectors)
        => \/ Includes(connectors, << "*" >>)
           \/ Includes(connectors, call.params.connectionKey)

\* C7: after initialization the connections listed in the system prompt are the
\* active upstream connections the allow-list admits: none for [], all for ["*"],
\* those with a listed key otherwise.
C7_SurfacedObeysAllowList ==
    (initialized = "fulfilled" /\ connReq = "ok" /\ connectors # NoConnectors)
        => SurfacedKeys(systemPromptValue.connectionsInfo, 1) = AllowedKeys

\* C8: an operation that reads the catalog state reads it only after the
\* initialization signal has completed.
C8_ReadsAfterInitialization ==
    (call.op \in { "execute", "waitForInitialization", "generateSystemPrompt" }
       /\ call.readInit # "none")
        => call.readInit = "fulfilled"

\* C9: when initialization has completed, each of the two lists holds what its own
\* fetch gave (the rows on success, the empty list on failure) whatever happened to
\* the other, the prompt is rendered from them, and a waiting operation returns it.
C9_FetchFailuresAreIndependent ==
    LET conns == IF connReq = "ok" THEN upstream.conns ELSE << >>
        defs == IF defReq = "ok" THEN upstream.defs ELSE << >>
    IN  /\ (connReq # "inflight" /\ defReq # "inflight")
            => /\ connections = conns
               /\ connectionDefinitions = defs
        /\ initialized = "fulfilled"
            => /\ connReq # "inflight" /\ defReq # "inflight"
               /\ systemPromptValue =
                     getDefaultSystemPrompt(
                         connectionsInfoOf(filteredConnections(conns, connectors)),
                         availablePlatformsInfoOf(defs))
        /\ (call.pc = "done" /\ call.op \in { "waitForInitialization", "generateSystemPrompt" })
            => /\ result.outcome = "returned"
               /\ result.system = systemPromptValue
               /\ result.system.connectionsInfo # << "Error loading connections" >>

C9_Witness ==
    /\ call.op = "waitForInitialization" /\ call.pc = "done"
    /\ connReq = "ok" /\ defReq = "failed"
    /\ Len(connections) = 2
    /\ connectionDefinitions = << >>
    /\ result.system.availablePlatformsInfo = << >>
    /\ Len(SurfacedKeys(result.system.connectionsInfo, 1)) = 2

\* C10: against a page source that answers fetch(skip, limit) with rows
\* skip..skip+limit-1 and total = N, paginateResults returns exactly the N rows,
\* each once, in page order.
C10_PaginationComplete ==
    pag.pc = "returned" => pag.allResults = pag.source

C10_Witness ==
    /\ pag.pc = "returned"
    /\ Len(pag.source) = 3 * pag.limit
    /\ pag.limit > 1
    /\ Len(pag.calls) = 3
    /\ pag.allResults = RowsOf(3 * pag.limit)

\* C11: when a page fetch fails, paginateResults throws that fetch's error, the
\* failed fetch is the last one it made, and no list is returned.
C11_FailureAtomicity ==
    pag.error # << >>
        => /\ pag.pc = "thrown"
           /\ pag.error = FetchError(pag.calls[Len(pag.calls)][1])
           /\ pag.skip = (Len(pag.calls) - 1) * pag.limit
           /\ \A i \in DOMAIN pag.calls : pag.calls[i] = << (i - 1) * pag.limit, pag.limit >>

C11_Witness ==
    /\ pag.pc = "thrown"
    /\ Len(pag.source) = 3 * pag.limit
    /\ Len(pag.calls) = 2
    /\ Len(pag.allResults) = pag.limit
    /\ pag.error = FetchError(pag.limit)

\* C12: normalizeActionId is idempotent, and an identifier that already starts
\* with 'conn_mod_def::' is returned unchanged.
C12_NormalizeIdempotent ==
    pure.fn = "normalizeActionId" =>
        /\ pure.pc = "twice" => pure.twice = pure.once
        /\ (pure.pc # "input" /\ startsWith(pure.raw, CanonicalPrefix)) => pure.once = pure.raw

C12_Witness ==
    /\ pure.fn = "normalizeActionId"
    /\ pure.pc = "twice"
    /\ pure.raw = << "send_email", ":", ":", "send_email" >>
    /\ pure.once = CanonicalPrefix \o pure.raw
    /\ pure.twice = pure.once

NamesOf(segs) ==
    LET named == SelectSeq(segs, LAMBDA s : s.name # << >>)
    IN  [ i \in DOMAIN named |-> named[i].name ]

\* The template with each placeholder segment written out with its value
Rendered(segs, variables) ==
    Concat([ i \in DOMAIN segs |->
               IF segs[i].name = << >> THEN segs[i].text
               ELSE << "/" >> \o toString(variables[segs[i].name]) ])

ResolverDone == pure.fn = "replacePathVariables" /\ pure.pc # "input"

\* C14 as stated: when every referenced name is a key of the mapping the path
\* comes back with every placeholder replaced by its value's string form and
\* the rest unchanged; otherwise an error names an absent variable.
C14_ResolvesWhenEveryNameIsPresent ==
    ResolverDone =>
        LET names == NamesOf(pure.segs)
        IN  IF \A i \in DOMAIN names : names[i] \in DOMAIN pure.variables
            THEN pure.pc = "returned" /\ pure.path = Rendered(pure.segs, pure.variables)
            ELSE /\ pure.pc = "thrown"
                 /\ \E i \in DOMAIN names :
                      /\ names[i] \notin DOMAIN pure.variables
                      /\ pure.error.message = << "Missing value for path variable: " >> \o names[i]

\* C14 as amended: when every referenced name has a truthy value the path comes
\* back with every placeholder replaced by its value's string form and the rest
\* unchanged; otherwise an error names the first referenced name whose value is
\* absent or falsy.
C14_ResolvesWhenEveryNameIsTruthy ==
    ResolverDone =>
        LET names == NamesOf(pure.segs)
            unresolved == SelectSeq(names, LAMBDA n : ~Has(pure.variables, n))
        IN  IF unresolved = << >>
            THEN pure.pc = "returned" /\ pure.path = Rendered(pure.segs, pure.variables)
            ELSE /\ pure.pc = "thrown"
                 /\ pure.error.message = << "Missing value for path variable: " >> \o unresolved[1]

C14_Witness ==
    /\ ResolverDone
    /\ pure.segs = << Lit(<< "/", "a" >>), Var("x"), Lit(<< "/", "b" >>), Var("y") >>
    /\ pure.variables = Vars2("x", Str(<< "1" >>), "y", Str(<< "2" >>))
    /\ pure.path = << "/", "a", "/", "1", "/", "b", "/", "2" >>

PathCallDone == pure.fn = "execute" /\ pure.pc # "input"

\* The required names that are a key of neither the body nor pathVariables
AbsentNames ==
    { n \in { NamesOf(pure.segs)[i] : i \in DOMAIN NamesOf(pure.segs) } :
        /\ ~(pure.data.t = "object" /\ n \in DOMAIN pure.data.f)
        /\ n \notin DOMAIN pure.pathVariables }

\* C15: when more than one required path variable has a value neither in the
\* body nor in pathVariables, execute returns one failure whose message is the
\* missing-variables message and names every one of them.
C15_NamesEveryMissingVariable ==
    (PathCallDone /\ Cardinality(AbsentNames) > 1) =>
        /\ pure.pc = "failed"
        /\ pure.requestConfig = NoRequest
        /\ pure.result.outcome = "returned" /\ ~pure.result.success
        /\ startsWith(pure.result.message, << "Missing required path variables: " >>)
        /\ \A n \in AbsentNames : Contains(pure.result.message, n)

C15_Witness ==
    /\ PathCallDone
    /\ pure.segs = << Lit(<< "/", "messages" >>), Var("id"), Var("y") >>
    /\ pure.data = ObjectData(SubjectOnly)
    /\ pure.pathVariables = NoHeaders
    /\ pure.result.message = << "Missing required path variables: ", "id", ", ", "y",
                                ". Please provide values for these variables." >>

\* C16: in a request execute sends, every required variable that has a value
\* only in the (non-array) body is in pathVariables and in the url and no longer
\* in the body, and every other body key is sent unchanged as raw JSON.
C16_BodyToPathMigration ==
    (PathCallDone /\ pure.pc = "sent") =>
        LET names == { NamesOf(pure.segs)[i] : i \in DOMAIN NamesOf(pure.segs) }
            body == pure.requestConfig.data
            moved == IF pure.data.t = "object"
                     THEN { n \in names : Has(pure.data.f, n) /\ ~Has(pure.pathVariables, n) }
                     ELSE {}
        IN  /\ body.enc = "raw"
            /\ body.data.t = pure.data.t
            /\ DOMAIN body.data.f = DOMAIN pure.data.f \ moved
            /\ \A k \in DOMAIN body.data.f : body.data.f[k] = pure.data.f[k]
            /\ \A n \in moved : pure.after.pathVariables[n] = pure.data.f[n]
            /\ \A k \in DOMAIN pure.pathVariables \ moved :
                 pure.after.pathVariables[k] = pure.pathVariables[k]
            /\ pure.requestConfig.url = baseUrl \o << "/", "v1", "/", "passthrough" >>
                   \o (IF pure.segs = << >> THEN << "/" >>
                       ELSE Rendered(pure.segs, pure.after.pathVariables))

C16_Witness ==
    /\ PathCallDone
    /\ pure.segs = << Lit(<< "/", "messages" >>), Var("id") >>
    /\ pure.data = IdAndSubject
    /\ pure.pathVariables = NoHeaders
    /\ pure.after.pathVariables = (<< "id" >> :> Str(<< "42" >>))
    /\ pure.requestConfig.method = "POST"
    /\ pure.requestConfig.url =
         baseUrl \o << "/", "v1", "/", "passthrough", "/", "messages", "/", "42" >>
    /\ pure.requestConfig.data =
         [ enc |-> "raw", data |-> ObjectData(SubjectOnly), entries |-> {} ]

Built == pure.fn = "executePassthrough" /\ pure.pc = "built"

\* The spellings of GET among the methods tried
GetSpellings == { "GET", "get", "Get" }

\* C17 as stated: the request carries the caller's value for every header key
\* the caller passes, the content-type key included, whatever the flags.
C17_CallerHeadersAlwaysWin ==
    Built => \A k \in DOMAIN pure.headers : pure.requestConfig.headers[k] = pure.headers[k]

\* C17 as amended: the request carries the caller's value for every header key
\* the caller passes, whatever the flags, except the key 'content-type' of a
\* multipart request (isFormData, method not GET), which carries the payload's
\* own multipart header.
C17_CallerHeadersWinButMultipart ==
    Built =>
        \A k \in DOMAIN pure.headers :
            IF k = "content-type" /\ pure.isFormData /\ pure.method \notin GetSpellings
            THEN pure.requestConfig.headers[k] = << "multipart/form-data; boundary=", "----b" >>
            ELSE pure.requestConfig.headers[k] = pure.headers[k]

C17_Witness ==
    /\ Built
    /\ pure.method = "POST"
    /\ pure.isFormData /\ pure.isFormUrlEncoded
    /\ pure.headers = ("Content-Type" :> << "text/plain" >>)
    /\ pure.requestConfig.headers["Content-Type"] = << "text/plain" >>

\* C18: a request whose method is GET in any letter case has no body, whatever
\* the data and the flags.
C18_GetHasNoBody ==
    (Built /\ pure.method \in GetSpellings) => pure.requestConfig.data = NoBody

C18_Witness ==
    /\ Built
    /\ pure.method = "Get"
    /\ pure.data = IdAndSubject
    /\ pure.isFormData
    /\ pure.requestConfig.data = NoBody

\* The fields of an object body, each scalar in its string form and each object
\* as its JSON text
StringifiedFields(data) ==
    IF data.t = "object" THEN { << k, data.f[k].s >> : k \in DOMAIN data.f } ELSE {}

\* C19: for a method other than GET the body is multipart when isFormData is
\* set, otherwise URL-encoded when isFormUrlEncoded is set, both holding the
\* scalar fields as they are and the object fields JSON-stringified, and
\* otherwise the supplied data unchanged.
C19_BodyEncodingSelection ==
    (Built /\ pure.method \notin GetSpellings) =>
        LET body == pure.requestConfig.data
        IN  IF pure.isFormData
            THEN body.enc = "multipart" /\ body.entries = StringifiedFields(pure.data)
            ELSE IF pure.isFormUrlEncoded
            THEN body.enc = "urlencoded" /\ body.entries = StringifiedFields(pure.data)
            ELSE body.enc = "raw" /\ body.data = pure.data

C19_Witness ==
    /\ Built
    /\ pure.method = "POST"
    /\ pure.isFormData /\ pure.isFormUrlEncoded
    /\ pure.data = MetaAndCount
    /\ pure.requestConfig.data.enc = "multipart"
    /\ pure.requestConfig.data.entries =
         { << << "meta" >>, << "{", "\"a\":1", "}" >> >>, << << "count" >>, << "3" >> >> }

\* C20: when the single-action lookup answers with zero rows, the failure
\* envelope of getActionKnowledge / execute carries the not-found message that
\* names the identifier, which a transport failure's envelope does not.
C20_NotFoundIsSurfaced ==
    (call.pc = "done" /\ call.op \in { "getActionKnowledge", "execute" }
                      /\ call.lookup = "empty")
        => /\ result.outcome = "returned" /\ ~result.success
           /\ result.message = << "Action with ID " >> \o call.params.actionId \o << " not found" >>

\* The passthrough requests of the current call, as positions in sent
PassthroughsSent == { i \in DOMAIN sent : IsPassthrough(sent[i]) }

\* C21: one execute sends at most one passthrough request; when that request
\* is rejected the envelope reports that very error once (its message, and its
\* response body as raw when it has one) and the request is not sent again.
C21_NoRetry ==
    call.op = "execute" =>
        /\ Cardinality(PassthroughsSent) <= 1
        /\ call.rejected.name # "none" =>
             /\ call.pc = "done"
             /\ Cardinality(PassthroughsSent) = 1
             /\ call.rejected.config = sent[Len(sent)]
             /\ result.outcome = "returned" /\ ~result.success
             /\ result.message = call.rejected.message
             /\ (call.rejected.hasResponse /\ call.rejected.responseData # << >>)
                    => result.raw = call.rejected.responseData

C21_Witness ==
    /\ call.op = "execute" /\ call.pc = "done"
    /\ call.rejected.hasResponse
    /\ call.rejected.responseData = << "{error:", "upstream said no", "}" >>
    /\ result.raw = << "{error:", "upstream said no", "}" >>
    /\ Cardinality(PassthroughsSent) = 1

\* C22: the lookup query of getActionKnowledge / execute and the
\* x-pica-action-id header of every passthrough request carry
\* normalizeActionId of the identifier the caller supplied.
C22_IdentifierNormalizedAtBoundaries ==
    (call.op \in { "getActionKnowledge", "execute" } /\ sent # << >>) =>
        /\ sent[1] = singleActionRequest(normalizeActionId(call.params.actionId))
        /\ \A i \in PassthroughsSent :
             sent[i].headers["x-pica-action-id"] = normalizeActionId(call.params.actionId)

\* C23: execute reaches replacePathVariables only with every placeholder
\* resolvable, so the resolver's own 'Missing value for path variable' error is
\* never what an execute call ends with.
C23_ResolverNeverRaisesInExecute ==
    call.op = "execute" =>
        ~startsWith(result.message, << "Missing value for path variable: " >>)

FalsyScalars == { Str(<< >>), Num(<< "0" >>), Bool(<< "false" >>) }

\* The value execute's pre-check sees for a name: pathVariables first, then a
\* non-array body
Supplied(n) ==
    IF n \in DOMAIN pure.pathVariables THEN << pure.pathVariables[n] >>
    ELSE IF pure.data.t = "object" /\ n \in DOMAIN pure.data.f THEN << pure.data.f[n] >>
    ELSE << >>

\* C24: a referenced name whose value is '', 0 or false counts as missing:
\* replacePathVariables raises 'Missing value for path variable' naming the
\* first placeholder, in template order, whose value is absent or falsy, and the
\* pre-check of execute lists the name in its missing-variables message.
C24_FalsyCountsAsMissing ==
    /\ ResolverDone =>
         LET names == NamesOf(pure.segs)
             Unset(n) == n \notin DOMAIN pure.variables \/ pure.variables[n] \in FalsyScalars
             unset == SelectSeq(names, Unset)
         IN  (\E i \in DOMAIN names :
                 names[i] \in DOMAIN pure.variables /\ pure.variables[names[i]] \in FalsyScalars)
             => /\ pure.pc = "thrown"
                /\ pure.error.message = << "Missing value for path variable: " >> \o unset[1]
    /\ PathCallDone =>
         \A i \in DOMAIN NamesOf(pure.segs) :
            LET n == NamesOf(pure.segs)[i]
            IN  (Supplied(n) # << >> /\ Supplied(n)[1] \in FalsyScalars)
                => /\ pure.pc = "failed"
                   /\ startsWith(pure.result.message, << "Missing required path variables: " >>)
                   /\ Contains(pure.result.message, << ", " >> \o n)
                        \/ Contains(pure.result.message, << "Missing required path variables: " >> \o n)

C24_Witness ==
    /\ ResolverDone
    /\ pure.segs = << Lit(<< "/", "a" >>), Var("y"), Var("x") >>
    /\ pure.variables = Vars2("x", Num(<< "0" >>), "y", Str(<< "2" >>))
    /\ pure.pc = "thrown"
    /\ pure.error.message = << "Missing value for path variable: ", "x" >>

\* C25: when execute fails with the missing-variables error, data and
\* pathVariables are as the caller passed them and no request has been built.
C25_ValidationFailureAppliesNothing ==
    (PathCallDone /\ startsWith(pure.result.message, << "Missing required path variables: " >>))
        => /\ pure.pc = "failed"
           /\ pure.after.data = pure.data
           /\ pure.after.pathVariables = pure.pathVariables
           /\ pure.requestConfig = NoRequest

C25_Witness ==
    /\ PathCallDone
    /\ pure.segs = << Lit(<< "/", "messages" >>), Var("id"), Var("y") >>
    /\ pure.data = IdAndSubject
    /\ pure.pathVariables = NoHeaders
    /\ pure.result.message = << "Missing required path variables: ", "y",
                                ". Please provide values for these variables." >>
    /\ pure.after.data = IdAndSubject

\* What a settled fetch leaves in its list
Fetched(req, rows) == IF req = "ok" THEN rows ELSE << >>

\* C26: the two fetches of initialization are in flight together; while either
\* is in flight the signal is pending, the prompt is the loading prompt and
\* the other fetch's list is untouched by it; once the signal has completed
\* both have finished and lists and prompt depend only on what each fetch
\* answered, not on which finished first.
C26_ConcurrentFetchesJoin ==
    /\ (connReq = "inflight" \/ defReq = "inflight")
         => initialized = "pending" /\ systemPromptValue = LoadingPrompt
    /\ connReq = "inflight" => connections = << >>
    /\ defReq = "inflight" => connectionDefinitions = << >>
    /\ connReq # "inflight" => connections = Fetched(connReq, upstream.conns)
    /\ defReq # "inflight" => connectionDefinitions = Fetched(defReq, upstream.defs)
    /\ initialized = "fulfilled"
         => systemPromptValue =
               getDefaultSystemPrompt(
                   connectionsInfoOf(filteredConnections(Fetched(connReq, upstream.conns),
                                                         connectors)),
                   availablePlatformsInfoOf(Fetched(defReq, upstream.defs)))

C26_Witness ==
    /\ initialized = "pending"
    /\ defReq = "ok" /\ connectionDefinitions = upstream.defs /\ upstream.defs # << >>
    /\ connReq = "inflight" /\ connections = << >> /\ upstream.conns # << >>

\* The fetches of the current paginateResults call that have answered with a page
PagesDone == IF pag.pc \in { "fetching", "thrown" } THEN Len(pag.calls) - 1 ELSE Len(pag.calls)

\* C27: the k-th fetch of a paginateResults call is made with skip = (k-1)*limit
\* and the same limit, and when it is made the rows of all k-1 earlier pages
\* have been received; at most the last fetch is unanswered.
C27_PaginationSequential ==
    pag.pc # "idle" =>
        /\ \A k \in DOMAIN pag.calls : pag.calls[k] = << (k - 1) * pag.limit, pag.limit >>
        /\ pag.skip = PagesDone * pag.limit
        /\ pag.allResults = SubSeq(pag.source, 1, Min(PagesDone * pag.limit, Len(pag.source)))

C27_Witness ==
    /\ pag.pc = "fetching"
    /\ pag.limit = 2
    /\ pag.calls = << << 0, 2 >>, << 2, 2 >>, << 4, 2 >> >>
    /\ Len(pag.allResults) = 4

\* C28: a paginateResults call whose fetches all answer ends after a bounded
\* number of fetches: never more than the reported total plus one, also when
\* the source answers with an empty or short page below its total.
C28_BoundedFetches ==
    pag.pc # "idle" => Len(pag.calls) <= Len(pag.source) + pag.stale + 1

\* C29: every passthrough request execute dispatches carries the connection key
\* that passed the connection check and the secret of the instance, also when
\* the caller's extra headers use those names.
C29_AuthorizedConnectionIsUsed ==
    call.op = "execute" =>
        \A i \in PassthroughsSent :
            /\ connectionKnown(connections, call.params.connectionKey)
            /\ sent[i].headers["x-pica-connection-key"] = call.params.connectionKey
            /\ sent[i].headers["x-pica-secret"] = secret

\* The content-type values a request carries, under either spelling of the key
ContentTypes(headers) ==
    { headers[k] : k \in DOMAIN headers \cap { "Content-Type", "content-type" } }

IsMultipartType(v) == v[1] \in { "multipart/form-data", "multipart/form-data; boundary=" }

IsFormType(v) == IsMultipartType(v) \/ v = << "application/x-www-form-urlencoded" >>

\* C30: without caller headers the request never carries two different
\* content-type values, a multipart body is announced as multipart/form-data, a
\* URL-encoded body as application/x-www-form-urlencoded, and a request without
\* a body announces no form content type.
C30_ContentTypeAgreesWithBody ==
    (Built /\ pure.headers = NoHeaders) =>
        LET types == ContentTypes(pure.requestConfig.headers)
            enc == pure.requestConfig.data.enc
        IN  /\ Cardinality(types) <= 1
            /\ enc = "multipart" => \A v \in types : IsMultipartType(v)
            /\ enc = "urlencoded" => types = { << "application/x-www-form-urlencoded" >> }
            /\ enc = "none" => \A v \in types : ~IsFormType(v)

====
